---- MODULE Spec2Model ----
(***************************************************************************)
(* Model of the market-data pipeline: the reconnecting stream client       *)
(* (feed.py), the two ingestion tasks and the plot reader (plot_live.py),  *)
(* the metric functions (metrics.py) and the order book (orderbook.pyx).   *)
(*                                                                         *)
(* The program runs on one asyncio event loop.  A task runs without        *)
(* interleaving from one suspension point (await of connect, of the next   *)
(* frame, of asyncio.sleep) to the next, so one action of the model is the *)
(* code a task executes between two suspension points.                     *)
(***************************************************************************)
EXTENDS Integers, Sequences, FiniteSets, TLC

\* ------------------------------------------------------------------------
\* Bounds of the model
\* ------------------------------------------------------------------------
\* deque(maxlen=MAX_DATAPOINTS) of the seven plotted series, scaled down
MAX_DATAPOINTS == 2
\* deque(maxlen=5000) of all_trades, scaled down
ALL_TRADES_MAXLEN == 2
\* number of backoff waits since the last successful connection recorded
MaxDelays == 8
\* largest value of the monotonic clock, in clock steps
MaxTicks == 1
\* number of frames of a stream whose history is recorded
MaxFrames == 3
\* length of the trade lists the metric functions are called with
MaxTrades == 3
\* number of prices, in steps of 0.5, at which a level can be set
MaxLevels == 2
\* number of units in the last place above 1.0 of the doubles passed to
\* calculate_spread and calculate_mid_price
MaxUlps == 9

\* ------------------------------------------------------------------------
\* Program constants
\* ------------------------------------------------------------------------
INITIAL_BACKOFF == 1
BACKOFF_CAP == 60
VWAP_WINDOW == 100
WINDOW_SECONDS == 1
NS_PER_SEC == 1000000000
NS_PER_MS == 1000000
\* granularity of the modelled monotonic clock, in ns (half a second)
ClockStep == NS_PER_SEC \div 2

Streams == {"bookTicker", "trade"}

\* ------------------------------------------------------------------------
\* Python values: floats are exact fractions <<n, d>> with d > 0, in lowest
\* terms; NaN and None are distinct values.
\* ------------------------------------------------------------------------
NaN == <<0, 0>>
None == <<0, -1>>

Abs(x) == IF x < 0 THEN -x ELSE x

RECURSIVE GCD(_, _)
GCD(a, b) == IF b = 0 THEN a ELSE GCD(b, a % b)

Frac(n, d) ==
    LET s == IF d < 0 THEN -1 ELSE 1
        g == GCD(Abs(n), Abs(d))
    IN  <<(s * n) \div g, (s * d) \div g>>

FAdd(x, y) == Frac(x[1] * y[2] + y[1] * x[2], x[2] * y[2])
FSub(x, y) == Frac(x[1] * y[2] - y[1] * x[2], x[2] * y[2])
FMul(x, y) == Frac(x[1] * y[1], x[2] * y[2])
FDiv(x, y) == Frac(x[1] * y[2], x[2] * y[1])
FLt(x, y) == x[1] * y[2] < y[1] * x[2]
FLe(x, y) == x[1] * y[2] <= y[1] * x[2]
FZero == <<0, 1>>

\* float(s) of a decimal string of the feed; a non-numeric string raises
NumericStrings == {"0", "0.5", "1", "1.5", "2"}
Float(s) ==
    CASE s = "0" -> <<0, 1>>
      [] s = "0.5" -> <<1, 2>>
      [] s = "1" -> <<1, 1>>
      [] s = "1.5" -> <<3, 2>>
      [] s = "2" -> <<2, 1>>

Min(a, b) == IF a < b THEN a ELSE b

Last(q) == q[Len(q)]

\* deque.appendleft with maxlen in place of append
DequeAppend_Left(q, x, maxlen) ==
    IF Len(q) >= maxlen THEN <<x>> \o SubSeq(q, 1, Len(q) - 1) ELSE <<x>> \o q

\* a list in place of the deque: append never evicts
DequeAppend_NoEvict(q, x, maxlen) == Append(q, x)

\* deque.append with maxlen: a full deque drops its leftmost element
DequeAppend(q, x, maxlen) ==
    IF Len(q) >= maxlen THEN Append(Tail(q), x) ELSE Append(q, x)

\* dq.popleft(); dq.append(x) in place of dq[-1] = x
SetLast_Shifts(q, x) == Append(Tail(q), x)

\* dq.append(x) in place of dq[-1] = x
SetLast_Appends(q, x) == Append(q, x)

\* dq[-1] = x
SetLast(q, x) == [q EXCEPT ![Len(q)] = x]


\* ------------------------------------------------------------------------
\* metrics.py
\* ------------------------------------------------------------------------
calculate_spread(best_bid, best_ask) ==
    IF FLt(FZero, best_bid) /\ FLt(FZero, best_ask) /\ FLt(best_bid, best_ask)
    THEN FSub(best_ask, best_bid)
    ELSE None

\* a mid-price that does not check for a crossed or locked book
calculate_mid_price_NoCrossCheck(best_bid, best_ask) ==
    IF FLt(FZero, best_bid) /\ FLt(FZero, best_ask)
    THEN FDiv(FAdd(best_ask, best_bid), <<2, 1>>)
    ELSE None

calculate_mid_price(best_bid, best_ask) ==
    IF FLt(FZero, best_bid) /\ FLt(FZero, best_ask) /\ FLt(best_bid, best_ask)
    THEN FDiv(FAdd(best_ask, best_bid), <<2, 1>>)
    ELSE None

\* an imbalance that reports 0.0 for an empty best level
calculate_order_book_imbalance_ZeroOnEmpty(bid_volume, ask_volume) ==
    LET total_volume == FAdd(bid_volume, ask_volume)
    IN  IF FLt(FZero, total_volume)
        THEN FDiv(FSub(bid_volume, ask_volume), total_volume)
        ELSE FZero

calculate_order_book_imbalance(bid_volume, ask_volume) ==
    LET total_volume == FAdd(bid_volume, ask_volume)
    IN  IF FLt(FZero, total_volume)
        THEN FDiv(FSub(bid_volume, ask_volume), total_volume)
        ELSE None

\* A result of a function that can raise: exc is "none" or the exception
Ok(v) == [exc |-> "none", val |-> v]
\* the function has not returned
Pending == [exc |-> "pending", val |-> <<0, -1>>]
Raised(e) == [exc |-> e, val |-> None]

\* float(d[k]): KeyError when the key is missing, ValueError when the string
\* is not a number
FloatField(d, k) ==
    IF k \notin DOMAIN d THEN Raised("KeyError")
    ELSE IF d[k] \notin NumericStrings THEN Raised("ValueError")
    ELSE Ok(Float(d[k]))

\* trades[:n] in place of trades[-n:]
LastN_First(trades, n) ==
    IF n >= Len(trades) THEN trades ELSE SubSeq(trades, 1, n)

\* trades[-n:]
LastN(trades, n) ==
    IF n >= Len(trades) THEN trades
    ELSE SubSeq(trades, Len(trades) - n + 1, Len(trades))

\* sum(float(trade['p']) * float(trade['q']) for trade in trades[i..])
RECURSIVE SumValue(_, _)
SumValue(trades, i) ==
    IF i > Len(trades) THEN Ok(FZero)
    ELSE LET p == FloatField(trades[i], "p")
             q == FloatField(trades[i], "q")
         IN  IF p.exc # "none" THEN p
             ELSE IF q.exc # "none" THEN q
             ELSE LET rest == SumValue(trades, i + 1)
                  IN  IF rest.exc # "none" THEN rest
                      ELSE Ok(FAdd(FMul(p.val, q.val), rest.val))

\* sum(float(trade['q']) for trade in trades[i..])
RECURSIVE SumVolume(_, _)
SumVolume(trades, i) ==
    IF i > Len(trades) THEN Ok(FZero)
    ELSE LET q == FloatField(trades[i], "q")
         IN  IF q.exc # "none" THEN q
             ELSE LET rest == SumVolume(trades, i + 1)
                  IN  IF rest.exc # "none" THEN rest
                      ELSE Ok(FAdd(q.val, rest.val))

calculate_vwap(trades, window_size_trades) ==
    IF Len(trades) = 0 \/ window_size_trades <= 0 THEN Ok(None)
    ELSE LET relevant_trades == LastN(trades, window_size_trades)
             total_value == SumValue(relevant_trades, 1)
             total_volume == SumVolume(relevant_trades, 1)
         IN  IF total_value.exc # "none" THEN total_value
             ELSE IF total_volume.exc # "none" THEN total_volume
             ELSE IF total_volume.val = FZero THEN Ok(None)
             ELSE Ok(FDiv(total_value.val, total_volume.val))

\* a scan that sums the trades older than the cutoff
RECURSIVE VolumeScan_Older(_, _, _)
VolumeScan_Older(trades, i, cutoff_time_ns) ==
    IF i < 1 THEN Ok(FZero)
    ELSE IF "T" \notin DOMAIN trades[i] THEN Raised("KeyError")
    ELSE LET trade_time_ns == trades[i]["T"] * NS_PER_MS
         IN  IF trade_time_ns < cutoff_time_ns
             THEN LET q == FloatField(trades[i], "q")
                  IN  IF q.exc # "none" THEN q
                      ELSE LET rest == VolumeScan_Older(trades, i - 1, cutoff_time_ns)
                           IN  IF rest.exc # "none" THEN rest
                               ELSE Ok(FAdd(q.val, rest.val))
             ELSE Ok(FZero)

\* a scan that leaves out a trade exactly at the cutoff
RECURSIVE VolumeScan_Strict(_, _, _)
VolumeScan_Strict(trades, i, cutoff_time_ns) ==
    IF i < 1 THEN Ok(FZero)
    ELSE IF "T" \notin DOMAIN trades[i] THEN Raised("KeyError")
    ELSE LET trade_time_ns == trades[i]["T"] * NS_PER_MS
         IN  IF trade_time_ns > cutoff_time_ns
             THEN LET q == FloatField(trades[i], "q")
                  IN  IF q.exc # "none" THEN q
                      ELSE LET rest == VolumeScan_Strict(trades, i - 1, cutoff_time_ns)
                           IN  IF rest.exc # "none" THEN rest
                               ELSE Ok(FAdd(q.val, rest.val))
             ELSE Ok(FZero)

\* the loop over reversed(trades), from index i down, with its early break
RECURSIVE VolumeScan(_, _, _)
VolumeScan(trades, i, cutoff_time_ns) ==
    IF i < 1 THEN Ok(FZero)
    ELSE IF "T" \notin DOMAIN trades[i] THEN Raised("KeyError")
    ELSE LET trade_time_ns == trades[i]["T"] * NS_PER_MS
         IN  IF trade_time_ns >= cutoff_time_ns
             THEN LET q == FloatField(trades[i], "q")
                  IN  IF q.exc # "none" THEN q
                      ELSE LET rest == VolumeScan(trades, i - 1, cutoff_time_ns)
                           IN  IF rest.exc # "none" THEN rest
                               ELSE Ok(FAdd(q.val, rest.val))
             ELSE Ok(FZero)

calculate_trade_volume_per_second(trades, current_time_ns, window_seconds) ==
    IF Len(trades) = 0 \/ window_seconds <= 0 THEN Ok(FZero)
    ELSE LET window_ns == window_seconds * NS_PER_SEC
             cutoff_time_ns == current_time_ns - window_ns
         IN  VolumeScan(trades, Len(trades), cutoff_time_ns)

\* x if x is not None else np.nan
OrNaN(x) == IF x = None THEN NaN ELSE x


\* ------------------------------------------------------------------------
\* State
\* ------------------------------------------------------------------------
VARIABLES
    pc,                     \* per task: where binance_websocket_client is suspended
    backoff_time,           \* per task: the local backoff_time of the client
    cancel_requested,       \* per task: task.cancel() was called and not yet delivered
    task_exc,               \* per task: the exception that ended the task, or "none"
    delays,                 \* per task: history of the asyncio.sleep arguments since the last successful connect
    started,                \* per task: the task has run since asyncio.create_task
    clock,                  \* time.monotonic_ns(), in clock steps
    main_pc,                \* where main() of plot_live.py is
    timestamps,
    mid_prices,
    spreads,
    imbalances,
    vwaps,
    trade_volumes_per_sec,
    last_trade_prices,
    all_trades,
    writers,                \* per store: history of the tasks that have changed it
    lines,                  \* per plotted line: lengths of the x and y data last set by update_plot
    frame_no,               \* per stream: history, number of frames received on all its connections
    decoded,                \* per stream: history, <<frame number, event>> of the frames orjson.loads accepted
    handled,                \* per stream: history, <<frame number, event>> the consumer's loop body ran with
    call,                   \* the metric function under study and its arguments
    result,                 \* what the call returned or raised, or Pending
    bids,                   \* OrderBook: the price levels of the bid side
    asks,                   \* OrderBook: the price levels of the ask side
    last_op                 \* OrderBook: history, the kind of the last operation and its side

client_vars == <<pc, backoff_time, cancel_requested, task_exc, delays, started>>
quote_series == <<timestamps, mid_prices, spreads, imbalances>>
trade_series == <<vwaps, trade_volumes_per_sec, last_trade_prices>>
series_vars == <<timestamps, mid_prices, spreads, imbalances, vwaps,
                 trade_volumes_per_sec, last_trade_prices>>
store_vars == <<timestamps, mid_prices, spreads, imbalances, vwaps,
                trade_volumes_per_sec, last_trade_prices, all_trades>>
history_vars == <<frame_no, decoded, handled>>
metric_vars == <<call, result>>
book_vars == <<bids, asks, last_op>>
\* the state the pipeline's own steps leave alone
aux_vars == <<frame_no, decoded, handled, call, result, bids, asks, last_op>>
vars == <<pc, backoff_time, cancel_requested, task_exc, delays, started, clock,
          main_pc, timestamps, mid_prices, spreads, imbalances, vwaps,
          trade_volumes_per_sec, last_trade_prices, all_trades, writers, lines,
          frame_no, decoded, handled, call, result, bids, asks, last_op>>

StoreNames == {"timestamps", "mid_prices", "spreads", "imbalances", "vwaps",
               "trade_volumes_per_sec", "last_trade_prices", "all_trades"}
LineNames == {"line_mid_price", "line_last_trade", "line_spread",
              "line_imbalance", "line_vwap", "line_volume_per_sec"}

\* ------------------------------------------------------------------------
\* Inputs: the frames a connection can deliver
\* ------------------------------------------------------------------------
\* a text frame that orjson.loads rejects
Undecodable == [json |-> FALSE]
Frame(d) == [json |-> TRUE, data |-> d]

BookTickerFrames ==
    { Frame([b |-> "1", B |-> "1", a |-> "2", A |-> "2"]),
      Frame([b |-> "2", B |-> "0", a |-> "1", A |-> "0"]),
      Frame([B |-> "1", a |-> "2", A |-> "1"]),
      Frame([b |-> "1", B |-> "1", a |-> "2"]),
      Frame([b |-> "1", B |-> "x", a |-> "2", A |-> "1"]),
      Undecodable }

\* T is the exchange's trade time in ms, on the time axis of the clock: the
\* second event is a trade made one second before the clock's origin
TradeFrames ==
    { Frame([p |-> "1", q |-> "1", T |-> 0]),
      Frame([p |-> "2", q |-> "0", T |-> -1000]),
      Frame([q |-> "1", T |-> 0]),
      Frame([p |-> "1", T |-> 0]),
      Frame([p |-> "1", q |-> "1"]),
      Undecodable }

Frames(s) == IF s = "bookTicker" THEN BookTickerFrames ELSE TradeFrames

\* ------------------------------------------------------------------------
\* Exceptions
\* ------------------------------------------------------------------------
\* subclasses of Exception that the try body can raise
ExceptionClasses == {"ConnectionClosedError", "InvalidStatusCode", "OSError",
                     "JSONDecodeError", "InvalidURI"}
\* asyncio.CancelledError derives from BaseException
BaseExceptionClasses == {"CancelledError"}

\* what websockets.connect can raise; InvalidURI when the uri built from the
\* symbol is not a valid WebSocket URI
ConnectErrors == {"InvalidStatusCode", "OSError", "InvalidURI"}
\* what the iteration over an open connection can raise
SessionErrors == {"ConnectionClosedError", "OSError"}

\* a client with only the first except clause
ExceptClause_ConnectionOnly(e) ==
    IF e \in {"ConnectionClosedError", "InvalidStatusCode"} THEN "sleep_conn"
    ELSE "done"

\* the except clauses of binance_websocket_client: the pc of the handler
\* that catches e, or "done" when e propagates out of the generator
ExceptClause(e) ==
    IF e \in {"ConnectionClosedError", "InvalidStatusCode"} THEN "sleep_conn"
    ELSE IF e \in ExceptionClasses THEN "sleep_any"
    ELSE "done"

Sleeping(s) == pc[s] \in {"sleep_conn", "sleep_any"}

\* a doubling without the cap
NextBackoff_Uncapped(b) == b * 2

\* backoff_time = min(backoff_time * 2, 60)
NextBackoff(b) == Min(b * 2, BACKOFF_CAP)

\* a client that returns when the iteration over the connection ends
AfterCleanClose_Returns == "done"

\* while True: after the with block the loop starts the next connect
AfterCleanClose == "connecting"

Record(ds, d) == IF Len(ds) < MaxDelays THEN Append(ds, d) ELSE ds

\* the pipeline after main has created the two tasks
PipelineInit ==
    /\ pc = [s \in Streams |-> "connecting"]
    /\ backoff_time = [s \in Streams |-> INITIAL_BACKOFF]
    /\ cancel_requested = [s \in Streams |-> FALSE]
    /\ task_exc = [s \in Streams |-> "none"]
    /\ delays = [s \in Streams |-> <<>>]
    /\ started = [s \in Streams |-> FALSE]
    /\ clock = 0
    /\ main_pc = "loop"
    /\ timestamps = <<>>
    /\ mid_prices = <<>>
    /\ spreads = <<>>
    /\ imbalances = <<>>
    /\ vwaps = <<>>
    /\ trade_volumes_per_sec = <<>>
    /\ last_trade_prices = <<>>
    /\ all_trades = <<>>
    /\ writers = [n \in StoreNames |-> {}]
    /\ lines = [n \in LineNames |-> <<0, 0>>]
    /\ frame_no = [s \in Streams |-> 0]
    /\ decoded = [s \in Streams |-> <<>>]
    /\ handled = [s \in Streams |-> <<>>]

\* no metric call under study
NoCall ==
    /\ call = [fn |-> "none"]
    /\ result = Pending

\* OrderBook(): both sides empty
EmptyBook ==
    /\ bids = {}
    /\ asks = {}
    /\ last_op = [op |-> "none", side |-> "both"]

Init == PipelineInit /\ NoCall /\ EmptyBook

\* ------------------------------------------------------------------------
\* binance_websocket_client
\* ------------------------------------------------------------------------
\* An exception e raised in the try body: the matching except clause prints
\* and starts asyncio.sleep(backoff_time); an exception no clause matches
\* leaves the generator and ends the task.
Except(s, e) ==
    LET target == ExceptClause(e)
    IN  /\ pc' = [pc EXCEPT ![s] = target]
        /\ IF target = "done"
           THEN /\ task_exc' = [task_exc EXCEPT ![s] = e]
                /\ delays' = delays
           ELSE /\ task_exc' = task_exc
                /\ delays' = [delays EXCEPT ![s] = Record(@, backoff_time[s])]
        /\ backoff_time' = backoff_time

TaskDone(s) == task_exc[s] # "none"

\* a task whose awaits complete although a cancellation is pending
Running_IgnoresCancel(s) == ~TaskDone(s)

\* the task is alive and no cancellation is pending for it: the await it is
\* suspended in can complete
Running(s) == ~TaskDone(s) /\ ~cancel_requested[s]

\* websockets.connect succeeds: backoff_time = 1, wait for the first frame
ConnectOk(s) ==
    /\ Running(s)
    /\ pc[s] = "connecting"
    /\ pc' = [pc EXCEPT ![s] = "connected"]
    /\ backoff_time' = [backoff_time EXCEPT ![s] = INITIAL_BACKOFF]
    /\ delays' = [delays EXCEPT ![s] = <<>>]
    /\ started' = [started EXCEPT ![s] = TRUE]
    /\ UNCHANGED <<cancel_requested, task_exc, clock, main_pc, store_vars,
                   writers, lines, aux_vars>>

\* websockets.connect raises
ConnectFail(s, e) ==
    /\ Running(s)
    /\ pc[s] = "connecting"
    /\ Except(s, e)
    /\ started' = [started EXCEPT ![s] = TRUE]
    /\ UNCHANGED <<cancel_requested, clock, main_pc, store_vars, writers, lines,
                   aux_vars>>

\* the open connection fails: the iteration over the websocket raises
ConnectionLost(s, e) ==
    /\ Running(s)
    /\ pc[s] = "connected"
    /\ Except(s, e)
    /\ UNCHANGED <<cancel_requested, started, clock, main_pc, store_vars, writers,
                   lines, aux_vars>>

\* the peer closes the connection normally: the iteration over the websocket
\* ends without an exception, the with block exits and while True starts the
\* next connect
CloseOk(s) ==
    /\ Running(s)
    /\ pc[s] = "connected"
    /\ pc' = [pc EXCEPT ![s] = AfterCleanClose]
    /\ UNCHANGED <<backoff_time, cancel_requested, task_exc, delays, started, clock,
                   main_pc, store_vars, writers, lines, aux_vars>>

\* a client whose second except clause does not double the backoff
SleepDone_AnyKeeps(s) ==
    /\ Running(s)
    /\ Sleeping(s)
    /\ backoff_time' = [backoff_time EXCEPT ![s] =
                            IF pc[s] = "sleep_any" THEN @ ELSE NextBackoff(@)]
    /\ pc' = [pc EXCEPT ![s] = "connecting"]
    /\ UNCHANGED <<cancel_requested, task_exc, delays, started, clock, main_pc,
                   store_vars, writers, lines, aux_vars>>

\* asyncio.sleep(backoff_time) returns: double the backoff, next connect
SleepDone(s) ==
    /\ Running(s)
    /\ Sleeping(s)
    /\ backoff_time' = [backoff_time EXCEPT ![s] = NextBackoff(@)]
    /\ pc' = [pc EXCEPT ![s] = "connecting"]
    /\ UNCHANGED <<cancel_requested, task_exc, delays, started, clock, main_pc,
                   store_vars, writers, lines, aux_vars>>

\* the pending cancellation is delivered: CancelledError is raised at the
\* await the task is suspended in
Cancelled(s) ==
    /\ ~TaskDone(s)
    /\ cancel_requested[s]
    /\ cancel_requested' = [cancel_requested EXCEPT ![s] = FALSE]
    /\ IF Sleeping(s)
       THEN \* raised inside an except clause: nothing catches it
            /\ pc' = [pc EXCEPT ![s] = "done"]
            /\ task_exc' = [task_exc EXCEPT ![s] = "CancelledError"]
            /\ UNCHANGED <<backoff_time, delays>>
       ELSE Except(s, "CancelledError")
    /\ UNCHANGED <<started, clock, main_pc, store_vars, writers, lines, aux_vars>>


\* ------------------------------------------------------------------------
\* plot_live.py: the two consumers of the client's events
\* ------------------------------------------------------------------------
StoreOf(n) ==
    CASE n = "timestamps" -> timestamps
      [] n = "mid_prices" -> mid_prices
      [] n = "spreads" -> spreads
      [] n = "imbalances" -> imbalances
      [] n = "vwaps" -> vwaps
      [] n = "trade_volumes_per_sec" -> trade_volumes_per_sec
      [] n = "last_trade_prices" -> last_trade_prices
      [] n = "all_trades" -> all_trades

\* the history of writers: task s is a writer of every store this step changes
NoteWriters(s) ==
    writers' = [n \in StoreNames |->
                   IF StoreOf(n)' # StoreOf(n) THEN writers[n] \cup {s}
                   ELSE writers[n]]

\* the first exception of the four float(msg[..]) conversions, in code order
FirstExc(rs) ==
    IF \A i \in 1..Len(rs) : rs[i].exc = "none" THEN "none"
    ELSE rs[CHOOSE i \in 1..Len(rs) :
                /\ rs[i].exc # "none"
                /\ \A j \in 1..(i - 1) : rs[j].exc = "none"].exc

\* the body of the loop of data_collector_book_ticker for one event: the
\* exception it raises, or "none"
BookTickerRaises(msg) ==
    FirstExc(<<FloatField(msg, "b"), FloatField(msg, "B"),
               FloatField(msg, "a"), FloatField(msg, "A")>>)

\* a body that appends the timestamp before it converts the fields
BookTickerBody_AppendsFirst(msg) ==
    LET current_time_sec == Frac(msg["_ts_received_ws"], NS_PER_SEC)
    IN  /\ timestamps' = DequeAppend(timestamps, current_time_sec, MAX_DATAPOINTS)
        /\ IF BookTickerRaises(msg) # "none"
           THEN UNCHANGED <<mid_prices, spreads, imbalances, trade_series, all_trades>>
           ELSE /\ mid_prices' = DequeAppend(mid_prices,
                       OrNaN(calculate_mid_price(Float(msg["b"]), Float(msg["a"]))),
                       MAX_DATAPOINTS)
                /\ spreads' = DequeAppend(spreads,
                       OrNaN(calculate_spread(Float(msg["b"]), Float(msg["a"]))),
                       MAX_DATAPOINTS)
                /\ imbalances' = DequeAppend(imbalances,
                       OrNaN(calculate_order_book_imbalance(Float(msg["B"]), Float(msg["A"]))),
                       MAX_DATAPOINTS)
                /\ vwaps' = DequeAppend(vwaps,
                       IF Len(vwaps) > 0 THEN Last(vwaps) ELSE NaN, MAX_DATAPOINTS)
                /\ trade_volumes_per_sec' = DequeAppend(trade_volumes_per_sec,
                       IF Len(trade_volumes_per_sec) > 0
                       THEN Last(trade_volumes_per_sec) ELSE NaN, MAX_DATAPOINTS)
                /\ last_trade_prices' = DequeAppend(last_trade_prices, NaN, MAX_DATAPOINTS)
                /\ all_trades' = all_trades

\* ... and what it does to the stores
BookTickerBody(msg) ==
    LET current_time_sec == Frac(msg["_ts_received_ws"], NS_PER_SEC)
    IN  IF BookTickerRaises(msg) # "none"
        THEN \* a conversion raised before the first append
             UNCHANGED store_vars
        ELSE LET best_bid == Float(msg["b"])
                 best_bid_qty == Float(msg["B"])
                 best_ask == Float(msg["a"])
                 best_ask_qty == Float(msg["A"])
                 mid == calculate_mid_price(best_bid, best_ask)
                 spread == calculate_spread(best_bid, best_ask)
                 imbalance == calculate_order_book_imbalance(best_bid_qty, best_ask_qty)
             IN  /\ timestamps' = DequeAppend(timestamps, current_time_sec, MAX_DATAPOINTS)
                 /\ mid_prices' = DequeAppend(mid_prices, OrNaN(mid), MAX_DATAPOINTS)
                 /\ spreads' = DequeAppend(spreads, OrNaN(spread), MAX_DATAPOINTS)
                 /\ imbalances' = DequeAppend(imbalances, OrNaN(imbalance), MAX_DATAPOINTS)
                 /\ vwaps' = DequeAppend(vwaps,
                        IF Len(vwaps) > 0 THEN Last(vwaps) ELSE NaN, MAX_DATAPOINTS)
                 /\ trade_volumes_per_sec' = DequeAppend(trade_volumes_per_sec,
                        IF Len(trade_volumes_per_sec) > 0
                        THEN Last(trade_volumes_per_sec) ELSE NaN, MAX_DATAPOINTS)
                 /\ last_trade_prices' = DequeAppend(last_trade_prices, NaN, MAX_DATAPOINTS)
                 /\ all_trades' = all_trades

\* the body of the loop of data_collector_trades for one event: the exception
\* it raises, or "none"
TradesRaises(msg) ==
    LET trade_price == FloatField(msg, "p")
        appended == DequeAppend(all_trades, msg, ALL_TRADES_MAXLEN)
        latest_vwap == calculate_vwap(appended, VWAP_WINDOW)
        latest_volume_per_sec == calculate_trade_volume_per_second(
                                     appended, msg["_ts_received_ws"], WINDOW_SECONDS)
    IN  IF trade_price.exc # "none" THEN trade_price.exc
        ELSE IF latest_vwap.exc # "none" THEN latest_vwap.exc
        ELSE latest_volume_per_sec.exc

\* ... and what it does to the stores
TradesBody(msg) ==
    LET current_time_ns == msg["_ts_received_ws"]
        trade_price == FloatField(msg, "p")
        appended == DequeAppend(all_trades, msg, ALL_TRADES_MAXLEN)
    IN  IF trade_price.exc # "none"
        THEN \* float(msg['p']) raised before the append
             UNCHANGED store_vars
        ELSE /\ all_trades' = appended
             /\ UNCHANGED quote_series
             /\ IF TradesRaises(msg) # "none"
                THEN \* a metric function raised after the append
                     UNCHANGED trade_series
                ELSE LET latest_vwap == calculate_vwap(appended, VWAP_WINDOW).val
                         latest_volume_per_sec ==
                             calculate_trade_volume_per_second(
                                 appended, current_time_ns, WINDOW_SECONDS).val
                     IN  /\ vwaps' = IF Len(vwaps) > 0
                                     THEN SetLast(vwaps, OrNaN(latest_vwap))
                                     ELSE vwaps
                         /\ trade_volumes_per_sec' =
                                IF Len(trade_volumes_per_sec) > 0
                                THEN SetLast(trade_volumes_per_sec, latest_volume_per_sec)
                                ELSE trade_volumes_per_sec
                         /\ last_trade_prices' =
                                IF Len(last_trade_prices) > 0
                                THEN SetLast(last_trade_prices, trade_price.val)
                                ELSE last_trade_prices

BodyRaises(s, msg) ==
    IF s = "bookTicker" THEN BookTickerRaises(msg) ELSE TradesRaises(msg)

Body(s, msg) ==
    IF s = "bookTicker" THEN BookTickerBody(msg) ELSE TradesBody(msg)

\* the three reads of time.monotonic_ns() around orjson.loads
Stamp(d, t1, t2, t3) ==
    d @@ ("_ts_before_parse" :> t1 * ClockStep)
      @@ ("_ts_after_parse" :> t2 * ClockStep)
      @@ ("_ts_received_ws" :> t3 * ClockStep)

\* A frame arrives on the open connection.  An undecodable frame raises in
\* the try body of the client.  A decoded frame is stamped and yielded, and
\* the consumer's loop body runs before the client waits for the next frame;
\* an exception of the body leaves the consumer's coroutine and ends the task.
Receive(s, f, t1, t2, t3) ==
    /\ Running(s)
    /\ pc[s] = "connected"
    /\ f \in Frames(s)
    /\ clock <= t1 /\ t1 <= t2 /\ t2 <= t3 /\ t3 <= MaxTicks
    /\ IF ~f.json
       THEN /\ Except(s, "JSONDecodeError")
            /\ clock' = t1
            /\ UNCHANGED <<store_vars, writers>>
       ELSE LET msg == Stamp(f.data, t1, t2, t3)
                exc == BodyRaises(s, msg)
            IN  /\ Body(s, msg)
                /\ clock' = t3
                /\ NoteWriters(s)
                /\ IF exc = "none"
                   THEN UNCHANGED <<pc, task_exc>>
                   ELSE \* the generator stays suspended at its yield
                        /\ pc' = [pc EXCEPT ![s] = "yielded"]
                        /\ task_exc' = [task_exc EXCEPT ![s] = exc]
                /\ UNCHANGED <<backoff_time, delays>>
    /\ UNCHANGED <<cancel_requested, started, main_pc, lines>>

RecvFrame(s, f, t1, t2, t3) ==
    /\ Receive(s, f, t1, t2, t3)
    /\ UNCHANGED aux_vars

\* The same step with its history recorded: the frame gets the next frame
\* number of its stream; a frame that decodes is noted with the stamped event
\* that is yielded, and the consumer's loop body is noted with the event it
\* runs with.
RecvFrameObserved(s, f, t1, t2, t3) ==
    /\ frame_no[s] < MaxFrames
    /\ Receive(s, f, t1, t2, t3)
    /\ frame_no' = [frame_no EXCEPT ![s] = @ + 1]
    /\ IF ~f.json
       THEN UNCHANGED <<decoded, handled>>
       ELSE LET msg == Stamp(f.data, t1, t2, t3)
            IN  /\ decoded' = [decoded EXCEPT ![s] = Append(@, <<frame_no[s] + 1, msg>>)]
                /\ handled' = [handled EXCEPT ![s] = Append(@, <<frame_no[s] + 1, msg>>)]
    /\ UNCHANGED <<metric_vars, book_vars>>

\* get_plot_data of update_plot
get_plot_data(dq, current_len) ==
    IF Len(dq) = 0 THEN [i \in 1..current_len |-> NaN]
    ELSE LET data == IF Len(dq) < current_len
                     THEN dq \o [i \in 1..(current_len - Len(dq)) |-> Last(dq)]
                     ELSE dq
         IN  SubSeq(data, 1, Min(current_len, Len(data)))

LineSource(n) ==
    CASE n = "line_mid_price" -> mid_prices
      [] n = "line_last_trade" -> last_trade_prices
      [] n = "line_spread" -> spreads
      [] n = "line_imbalance" -> imbalances
      [] n = "line_vwap" -> vwaps
      [] n = "line_volume_per_sec" -> trade_volumes_per_sec

\* a reader that removes the oldest sample it has plotted
update_plot_Consumes ==
    /\ main_pc = "loop"
    /\ Len(timestamps) > 0
    /\ timestamps' = Tail(timestamps)
    /\ lines' = [n \in LineNames |-> <<Len(timestamps), Len(timestamps)>>]
    /\ UNCHANGED <<client_vars, clock, main_pc, mid_prices, spreads, imbalances,
                   vwaps, trade_volumes_per_sec, last_trade_prices, all_trades,
                   writers, aux_vars>>

\* the animation callback, run by plt.pause from the loop of main
update_plot ==
    /\ main_pc = "loop"
    /\ IF Len(timestamps) = 0
       THEN lines' = lines
       ELSE LET current_len == Len(timestamps)
            IN  lines' = [n \in LineNames |->
                    <<current_len, Len(get_plot_data(LineSource(n), current_len))>>]
    /\ UNCHANGED <<client_vars, clock, main_pc, store_vars, writers, aux_vars>>

\* the finally block of main: cancel() on both tasks; cancel() of a task
\* that is already done does nothing
Shutdown ==
    /\ main_pc = "loop"
    /\ main_pc' = "shutdown"
    /\ cancel_requested' = [s \in Streams |-> ~TaskDone(s)]
    /\ UNCHANGED <<pc, backoff_time, task_exc, delays, started, clock,
                   store_vars, writers, lines, aux_vars>>

\* every step of the ingestion task s
TaskNext(s) ==
    \/ ConnectOk(s)
    \/ \E e \in ConnectErrors : ConnectFail(s, e)
    \/ \E e \in SessionErrors : ConnectionLost(s, e)
    \/ CloseOk(s)
    \/ SleepDone(s)
    \/ Cancelled(s)
    \/ \E t1 \in clock..MaxTicks : \E t2 \in t1..MaxTicks : \E t3 \in t2..MaxTicks :
           \E f \in Frames(s) : RecvFrame(s, f, t1, t2, t3)

Next ==
    \/ \E s \in Streams : TaskNext(s)
    \/ update_plot
    \/ Shutdown

Spec == Init /\ [][Next]_vars

\* ------------------------------------------------------------------------
\* The stream client on its own.  The client of a task reads and writes only
\* that task's components of pc, backoff_time, cancel_requested, task_exc,
\* delays and started, so its behaviour is explored in the runs in which the
\* other task has not been scheduled since it was created.
\* ------------------------------------------------------------------------
NotStarted(o) == ~started[o]

\* task s is the only task that has been scheduled
Alone(s) == \A o \in Streams \ {s} : NotStarted(o)

ClientNext ==
    \/ \E s \in Streams : Alone(s) /\ ConnectOk(s)
    \/ \E s \in Streams, e \in ConnectErrors : Alone(s) /\ ConnectFail(s, e)
    \/ \E s \in Streams, e \in SessionErrors : Alone(s) /\ ConnectionLost(s, e)
    \/ \E s \in Streams : Alone(s) /\ CloseOk(s)
    \/ \E s \in Streams : Alone(s) /\ SleepDone(s)
    \/ \E s \in Streams : Alone(s) /\ Cancelled(s)
    \/ \E s \in Streams :
          \E t1 \in clock..MaxTicks : \E t2 \in t1..MaxTicks : \E t3 \in t2..MaxTicks :
              \E f \in Frames(s) : Alone(s) /\ RecvFrame(s, f, t1, t2, t3)
    \/ Shutdown

ClientSpec == Init /\ [][ClientNext]_vars

\* The event loop runs every task that is ready: a sleep that is due returns
\* and a requested cancellation is delivered.
ClientFairSpec ==
    /\ ClientSpec
    /\ \A s \in Streams :
          /\ WF_vars(Alone(s) /\ SleepDone(s))
          /\ WF_vars(Alone(s) /\ Cancelled(s))

\* ------------------------------------------------------------------------
\* The two ingestion tasks and the reader while main is in its loop and both
\* connections deliver decodable frames, for the frames of one burst (the
\* clock reads the same value throughout).  The steps left out (the end of a
\* connection, an undecodable frame, the backoff, the shutdown of main and
\* the delivery of a cancellation) leave every store unchanged.
\* ------------------------------------------------------------------------
PipelineTask(s) ==
    \/ ConnectOk(s)
    \/ \E f \in Frames(s) : f.json /\ RecvFrame(s, f, clock, clock, clock)

PipelineNext ==
    \/ \E s \in Streams : PipelineTask(s)
    \/ update_plot

PipelineSpec == Init /\ [][PipelineNext]_vars

\* ------------------------------------------------------------------------
\* One ingestion task over several connections, with the history of its
\* frames recorded: the connection delivers frames while the clock advances,
\* fails or is closed, and the client waits and connects again.
\* ------------------------------------------------------------------------
OrderNext ==
    \/ \E s \in Streams : Alone(s) /\ ConnectOk(s)
    \/ \E s \in Streams, e \in SessionErrors : Alone(s) /\ ConnectionLost(s, e)
    \/ \E s \in Streams : Alone(s) /\ CloseOk(s)
    \/ \E s \in Streams : Alone(s) /\ SleepDone(s)
    \/ \E s \in Streams :
          \E t1 \in clock..MaxTicks : \E t2 \in t1..MaxTicks : \E t3 \in t2..MaxTicks :
              \E f \in Frames(s) : Alone(s) /\ RecvFrameObserved(s, f, t1, t2, t3)

OrderSpec == Init /\ [][OrderNext]_vars

\* ------------------------------------------------------------------------
\* The two ingestion tasks and the reader while both connections deliver
\* events that the collectors accept.
\* ------------------------------------------------------------------------
ReaderFrames(s) ==
    IF s = "bookTicker"
    THEN { Frame([b |-> "1", B |-> "1", a |-> "2", A |-> "2"]) }
    ELSE { Frame([p |-> "1", q |-> "1", T |-> 0]),
           Frame([p |-> "2", q |-> "0", T |-> -1000]) }

ReaderNext ==
    \/ \E s \in Streams : ConnectOk(s)
    \/ \E s \in Streams : \E f \in ReaderFrames(s) :
          RecvFrame(s, f, clock, clock, clock)
    \/ update_plot

ReaderSpec == Init /\ [][ReaderNext]_vars

\* ------------------------------------------------------------------------
\* The two ingestion tasks while the quote stream delivers valid events and
\* the trade stream delivers every kind of decoded event.
\* ------------------------------------------------------------------------
TradeEffectNext ==
    \/ \E s \in Streams : ConnectOk(s)
    \/ \E f \in ReaderFrames("bookTicker") :
          RecvFrame("bookTicker", f, clock, clock, clock)
    \/ \E f \in TradeFrames : f.json /\ RecvFrame("trade", f, clock, clock, clock)

TradeEffectSpec == Init /\ [][TradeEffectNext]_vars

\* ------------------------------------------------------------------------
\* The shutdown of main: after cancel() on both tasks the finally block
\* awaits wait_for(task_book_ticker, 1.0), then wait_for(task_trades, 1.0),
\* then closes the figure.  main_pc is "shutdown" while the first wait_for
\* is pending.
\* ------------------------------------------------------------------------
\* the tasks in the order the finally block awaits them
ShutdownOrder == <<"bookTicker", "trade">>

\* where main is while wait_for(task s) is pending
Awaiting(s) == IF s = ShutdownOrder[1] THEN "shutdown" ELSE "wait_trade"

\* where main is after the 1.0 s of wait_for(task s) have passed: wait_for
\* has cancelled the task and waits until the cancellation has ended it
TimedOut(s) == IF s = ShutdownOrder[1] THEN "timeout_bookTicker" ELSE "timeout_trade"

\* the statement after the try/except around wait_for(task s)
AfterWait(s) == IF s = ShutdownOrder[1] THEN Awaiting(ShutdownOrder[2]) ELSE "closed"

\* except (asyncio.CancelledError, asyncio.TimeoutError) around wait_for
ShutdownCatches(e) == e \in {"CancelledError", "TimeoutError"}

\* wait_for ends with exception e: a caught exception is printed and the
\* finally block goes on, any other leaves main before plt.close
WaitForRaises(s, e) ==
    main_pc' = IF ShutdownCatches(e) THEN AfterWait(s) ELSE "raised"

\* the awaited task is done: wait_for raises the exception that ended it
WaitForDone(s) ==
    /\ main_pc = Awaiting(s)
    /\ TaskDone(s)
    /\ WaitForRaises(s, task_exc[s])
    /\ UNCHANGED <<client_vars, clock, store_vars, writers, lines, aux_vars>>

\* the timeout passes before the task is done: wait_for cancels the task
WaitForTimeout(s) ==
    /\ main_pc = Awaiting(s)
    /\ ~TaskDone(s)
    /\ main_pc' = TimedOut(s)
    /\ cancel_requested' = [cancel_requested EXCEPT ![s] = TRUE]
    /\ UNCHANGED <<pc, backoff_time, task_exc, delays, started, clock,
                   store_vars, writers, lines, aux_vars>>

\* the task wait_for has cancelled is done: TimeoutError replaces its
\* CancelledError, any other exception of the task is raised as it is
WaitForCancelled(s) ==
    /\ main_pc = TimedOut(s)
    /\ TaskDone(s)
    /\ WaitForRaises(s, IF task_exc[s] = "CancelledError" THEN "TimeoutError"
                        ELSE task_exc[s])
    /\ UNCHANGED <<client_vars, clock, store_vars, writers, lines, aux_vars>>

\* the frames of the shutdown runs: a valid event, an event without its
\* first field, a frame that is not JSON
ShutdownFrames(s) ==
    IF s = "bookTicker"
    THEN { Frame([b |-> "1", B |-> "1", a |-> "2", A |-> "2"]),
           Frame([B |-> "1", a |-> "2", A |-> "1"]),
           Undecodable }
    ELSE { Frame([p |-> "1", q |-> "1", T |-> 0]),
           Frame([q |-> "1", T |-> 0]),
           Undecodable }

ShutdownNext ==
    \/ \E s \in Streams : ConnectOk(s)
    \/ \E s \in Streams : ConnectFail(s, "OSError")
    \/ \E s \in Streams : ConnectionLost(s, "ConnectionClosedError")
    \/ \E s \in Streams : CloseOk(s)
    \/ \E s \in Streams : SleepDone(s)
    \/ \E s \in Streams : Cancelled(s)
    \/ \E s \in Streams : \E f \in ShutdownFrames(s) :
          RecvFrame(s, f, clock, clock, clock)
    \/ Shutdown
    \/ \E s \in Streams : WaitForDone(s)
    \/ \E s \in Streams : WaitForTimeout(s)
    \/ \E s \in Streams : WaitForCancelled(s)

ShutdownSpec == Init /\ [][ShutdownNext]_vars

\* The event loop delivers a requested cancellation, the timer of wait_for
\* fires, and main runs when the task it waits for is done.
ShutdownFairSpec ==
    /\ ShutdownSpec
    /\ \A s \in Streams :
          /\ WF_vars(Cancelled(s))
          /\ WF_vars(WaitForDone(s))
          /\ WF_vars(WaitForTimeout(s))
          /\ WF_vars(WaitForCancelled(s))


\* ------------------------------------------------------------------------
\* metrics.py on its own: one call of one metric function, with arguments
\* drawn from the values below
\* ------------------------------------------------------------------------
\* float arguments: negative, zero, positive
FloatInputs == {<<-1, 1>>, <<0, 1>>, <<1, 2>>, <<1, 1>>, <<3, 2>>, <<2, 1>>}

\* trade events as the feed sends them: p and q decimal strings, T in ms
MetricTrades ==
    { [p |-> "1", q |-> "1", T |-> 0],
      [p |-> "2", q |-> "0", T |-> 500],
      [p |-> "2", q |-> "2", T |-> 500],
      [p |-> "1.5", q |-> "0.5", T |-> 1000] }

RECURSIVE SeqsUpTo(_, _)
SeqsUpTo(S, n) ==
    IF n = 0 THEN {<<>>}
    ELSE LET shorter == SeqsUpTo(S, n - 1)
         IN  shorter \cup {Append(q, x) : q \in shorter, x \in S}

TradeLists == SeqsUpTo(MetricTrades, MaxTrades)

\* the mock trades of the example in metrics.py, 2.5 s, 1.8 s, 0.9 s and
\* 0.3 s before a current time of 1 s
ExampleTrades ==
    << [p |-> "1", q |-> "1", T |-> -1500],
       [p |-> "1", q |-> "0.5", T |-> -800],
       [p |-> "1", q |-> "2", T |-> 100],
       [p |-> "1", q |-> "1.5", T |-> 700] >>
ExampleNow == NS_PER_SEC

WindowSizes == {-1, 0, 1, 2, 3, VWAP_WINDOW}
NowValues == {k * ClockStep : k \in 0..3}
WindowSeconds == {-1, 0, 1, 2}

Calls ==
    [fn : {"calculate_spread", "calculate_mid_price"},
     best_bid : FloatInputs, best_ask : FloatInputs]
    \cup [fn : {"calculate_order_book_imbalance"},
          bid_volume : FloatInputs, ask_volume : FloatInputs]
    \cup [fn : {"calculate_vwap"}, trades : TradeLists,
          window_size_trades : WindowSizes]
    \cup [fn : {"calculate_trade_volume_per_second"}, trades : TradeLists,
          current_time_ns : NowValues, window_seconds : WindowSeconds]
    \cup [fn : {"calculate_trade_volume_per_second"}, trades : {ExampleTrades},
          current_time_ns : {ExampleNow}, window_seconds : {1, 2}]

MetricsInit ==
    /\ PipelineInit
    /\ EmptyBook
    /\ call \in Calls
    /\ result = Pending

\* the call returns v
Return(v) ==
    /\ result = Pending
    /\ result' = v
    /\ UNCHANGED <<client_vars, clock, main_pc, store_vars, writers, lines,
                   history_vars, call, book_vars>>

CallSpread ==
    /\ call.fn = "calculate_spread"
    /\ Return(Ok(calculate_spread(call.best_bid, call.best_ask)))

CallMidPrice ==
    /\ call.fn = "calculate_mid_price"
    /\ Return(Ok(calculate_mid_price(call.best_bid, call.best_ask)))

CallImbalance ==
    /\ call.fn = "calculate_order_book_imbalance"
    /\ Return(Ok(calculate_order_book_imbalance(call.bid_volume, call.ask_volume)))

CallVwap ==
    /\ call.fn = "calculate_vwap"
    /\ Return(calculate_vwap(call.trades, call.window_size_trades))

CallVolume ==
    /\ call.fn = "calculate_trade_volume_per_second"
    /\ Return(calculate_trade_volume_per_second(
                  call.trades, call.current_time_ns, call.window_seconds))

MetricsNext ==
    \/ CallSpread
    \/ CallMidPrice
    \/ CallImbalance
    \/ CallVwap
    \/ CallVolume

MetricsSpec == MetricsInit /\ [][MetricsNext]_vars

\* ------------------------------------------------------------------------
\* calculate_spread and calculate_mid_price in the arithmetic of Python's
\* float (IEEE 754 binary64, round to nearest, ties to even), for prices in
\* [1, 2).  The doubles of [1, 2) are 1 + k * 2^-52: Binary64(1, k) is that
\* double and Binary64(0, k) is k * 2^-52; None is as before.
\* ------------------------------------------------------------------------
Binary64(whole, ulps) == <<whole, ulps>>

Binary64Prices == {Binary64(1, k) : k \in 0..MaxUlps}

\* best_ask + best_bid for 1 + i * 2^-52 and 1 + j * 2^-52 is
\* 2 + (i + j) * 2^-52; the doubles of [2, 4) are 2 + 2 * m * 2^-52, so an
\* odd i + j lies half way between two of them and is rounded to the one
\* with the even m.  The result is m.
RoundedSum(i, j) ==
    LET n == i + j
        down == (n - 1) \div 2
    IN  IF n % 2 = 0 THEN n \div 2
        ELSE IF down % 2 = 0 THEN down ELSE down + 1

\* a spread that is also reported for a locked book (best_ask = best_bid)
calculate_spread_binary64_Locked(best_bid, best_ask) ==
    IF best_ask[2] >= best_bid[2]
    THEN Binary64(0, best_ask[2] - best_bid[2])
    ELSE None

\* best_bid > 0 and best_ask > 0 hold for every double of [1, 2); the
\* difference of two doubles of [1, 2) is a double
calculate_spread_binary64(best_bid, best_ask) ==
    IF best_ask[2] > best_bid[2]
    THEN Binary64(0, best_ask[2] - best_bid[2])
    ELSE None

\* the division of 2 + 2 * m * 2^-52 by 2.0 is exact: 1 + m * 2^-52
calculate_mid_price_binary64(best_bid, best_ask) ==
    IF best_ask[2] > best_bid[2]
    THEN Binary64(1, RoundedSum(best_ask[2], best_bid[2]))
    ELSE None

Binary64Calls ==
    [fn : {"calculate_spread", "calculate_mid_price"},
     best_bid : Binary64Prices, best_ask : Binary64Prices]

Binary64Init ==
    /\ PipelineInit
    /\ EmptyBook
    /\ call \in Binary64Calls
    /\ result = Pending

CallSpreadBinary64 ==
    /\ call.fn = "calculate_spread"
    /\ Return(Ok(calculate_spread_binary64(call.best_bid, call.best_ask)))

CallMidPriceBinary64 ==
    /\ call.fn = "calculate_mid_price"
    /\ Return(Ok(calculate_mid_price_binary64(call.best_bid, call.best_ask)))

Binary64Next ==
    \/ CallSpreadBinary64
    \/ CallMidPriceBinary64

Binary64Spec == Binary64Init /\ [][Binary64Next]_vars

\* ------------------------------------------------------------------------
\* OrderBook (orderbook.pyx): the price-level store, with the operations the
\* tests call.  A side is the set of its price levels.
\* ------------------------------------------------------------------------
BookPrices == {Frac(k, 2) : k \in 1..MaxLevels}
BookQuantities == {<<-1, 1>>, <<0, 1>>, <<1, 1>>, <<2, 1>>}

\* the dicts update_from_book_ticker is called with
TickerUpdates == [b : {"0.5", "1"}, B : {"0", "1"}, a : {"1", "1.5"}, A : {"0", "2"}]

MaxPrice(S) == CHOOSE p \in S : \A o \in S : FLe(o, p)
MinPrice(S) == CHOOSE p \in S : \A o \in S : FLe(p, o)

PriceLevel(p, q) == [price |-> p, quantity |-> q]

\* the key set of a side
Keys(levels) == {l.price : l \in levels}

\* an upsert that stores a level of quantity <= 0 instead of removing it
Upsert_KeepsZero(levels, price, quantity) ==
    {l \in levels : l.price # price} \cup {PriceLevel(price, quantity)}

\* an upsert whose removal clears the side
Upsert_RemoveClears(levels, price, quantity) ==
    IF FLe(quantity, FZero) THEN {}
    ELSE {l \in levels : l.price # price} \cup {PriceLevel(price, quantity)}

\* an upsert that adds the new level and keeps the old one at that price
Upsert_KeepsOld(levels, price, quantity) ==
    IF FLe(quantity, FZero) THEN {l \in levels : l.price # price}
    ELSE levels \cup {PriceLevel(price, quantity)}

\* upsert(side, price, quantity): remove the level when quantity <= 0 (no
\* error when it is absent), else insert or overwrite it
Upsert(levels, price, quantity) ==
    LET others == {l \in levels : l.price # price}
    IN  IF FLe(quantity, FZero) THEN others
        ELSE others \cup {PriceLevel(price, quantity)}

\* a replacement that upserts the reported level and keeps the others
ReplaceSide_Merges(levels, price, quantity) == Upsert(levels, price, quantity)

\* a replacement that adds the reported quantity to the one stored at the price
ReplaceSide_Accumulates(levels, price, quantity) ==
    IF FLe(quantity, FZero) THEN {}
    ELSE LET old == {l \in levels : l.price = price}
         IN  {PriceLevel(price, IF old = {} THEN quantity
                                ELSE FAdd(quantity, (CHOOSE l \in old : TRUE).quantity))}

\* one side of apply_top_of_book: discard every level, install the reported
\* one unless its quantity is <= 0
ReplaceSide(levels, price, quantity) ==
    IF FLe(quantity, FZero) THEN {} ELSE {PriceLevel(price, quantity)}

get_bids == bids
get_asks == asks

get_best_bid == IF bids = {} THEN FZero ELSE MaxPrice(Keys(bids))
get_best_ask == IF asks = {} THEN FZero ELSE MinPrice(Keys(asks))

\* the quantity stored at price, 0 when the price is absent
QuantityAt(levels, price) ==
    IF price \in Keys(levels)
    THEN (CHOOSE l \in levels : l.price = price).quantity
    ELSE FZero

get_bid_quantity(price) == QuantityAt(bids, price)
get_ask_quantity(price) == QuantityAt(asks, price)

\* the kind of an upsert, for the history: what it does to the level at price
UpsertKind(levels, price, quantity, best) ==
    IF FLe(quantity, FZero)
    THEN IF price \notin Keys(levels) THEN "remove_absent"
         ELSE IF price = best /\ Cardinality(levels) >= 2 THEN "remove_best"
         ELSE "remove"
    ELSE IF price \in Keys(levels) THEN "overwrite" ELSE "insert"

BookUnchanged ==
    UNCHANGED <<client_vars, clock, main_pc, store_vars, writers, lines,
                history_vars, metric_vars>>

update_bid(price, quantity) ==
    /\ bids' = Upsert(bids, price, quantity)
    /\ asks' = asks
    /\ last_op' = [op |-> UpsertKind(bids, price, quantity, get_best_bid),
                   side |-> "bid"]
    /\ BookUnchanged

update_ask(price, quantity) ==
    /\ asks' = Upsert(asks, price, quantity)
    /\ bids' = bids
    /\ last_op' = [op |-> UpsertKind(asks, price, quantity, get_best_ask),
                   side |-> "ask"]
    /\ BookUnchanged

\* the last operation on the book was update_from_book_ticker(data)
AppliedLast(data) == "data" \in DOMAIN last_op /\ last_op.data = data

update_from_book_ticker(data) ==
    /\ bids' = ReplaceSide(bids, Float(data.b), Float(data.B))
    /\ asks' = ReplaceSide(asks, Float(data.a), Float(data.A))
    /\ last_op' = [op |-> IF AppliedLast(data) THEN "replace_again"
                           ELSE IF /\ Cardinality(bids) >= 2
                                   /\ Cardinality(asks) >= 2
                           THEN "replace_many" ELSE "replace",
                   side |-> "both",
                   data |-> data]
    /\ BookUnchanged

BookNext ==
    \/ \E price \in BookPrices, quantity \in BookQuantities : update_bid(price, quantity)
    \/ \E price \in BookPrices, quantity \in BookQuantities : update_ask(price, quantity)
    \/ \E data \in TickerUpdates : update_from_book_ticker(data)

BookSpec == Init /\ [][BookNext]_vars

\* ------------------------------------------------------------------------
\* Properties of the stream client
\* ------------------------------------------------------------------------
SeriesNames == StoreNames \ {"all_trades"}

\* the delay before the i-th consecutive retry
ExpectedDelay(i) == IF i <= 7 THEN <<1, 2, 4, 8, 16, 32, 60>>[i] ELSE 60

\* C1: the delays waited after consecutive failures are 1, 2, 4, 8, 16, 32,
\* 60, 60, ..., the wait in progress is the last of them, and a successful
\* connection starts the sequence again at 1.
C1_BackoffSequence ==
    \A s \in Streams :
        /\ \A i \in 1..Len(delays[s]) : delays[s][i] = ExpectedDelay(i)
        /\ backoff_time[s] \in {ExpectedDelay(i) : i \in 1..(MaxDelays + 1)}
        /\ (Sleeping(s) /\ Len(delays[s]) < MaxDelays)
               => (delays[s] # <<>> /\ Last(delays[s]) = backoff_time[s])
        /\ pc[s] = "connected" => (backoff_time[s] = 1 /\ delays[s] = <<>>)
        /\ (pc[s] = "connecting" /\ Len(delays[s]) < MaxDelays)
               => backoff_time[s] = ExpectedDelay(Len(delays[s]) + 1)

\* a client has waited 1, 2, 4, 8, 16, 32, 60 and 60 after eight failures
C1_Witness ==
    \E s \in Streams : delays[s] = <<1, 2, 4, 8, 16, 32, 60, 60>>

\* C2: a frame that fails to decode is dropped and nothing else happens: the
\* client stays connected with the same backoff and no wait is started.
C2_DecodeFailureKeepsConnection ==
    [][\A s \in Streams :
          (\E t \in 0..MaxTicks : RecvFrame(s, Undecodable, t, t, t))
              => /\ pc'[s] = "connected"
                 /\ backoff_time'[s] = backoff_time[s]
                 /\ delays'[s] = delays[s]]_vars

\* C3: every connect attempt but the first follows a backoff wait: the client
\* never goes from an open connection straight to the next connect.
C3_BackoffBeforeEveryReconnect ==
    [][\A s \in Streams :
          (pc'[s] = "connecting" /\ pc[s] # "connecting") => Sleeping(s)]_vars

\* C4: the client terminates only by the CancelledError of a cancellation
\* that main requested.
C4_TerminatesOnlyOnCancel ==
    \A s \in Streams :
        pc[s] = "done" => (main_pc = "shutdown" /\ task_exc[s] = "CancelledError")

\* a client that was cancelled after it had failed and waited
C4_Witness ==
    \E s \in Streams :
        pc[s] = "done" /\ task_exc[s] = "CancelledError" /\ Len(delays[s]) >= 2

\* C5: no connection failure ends the task, and a client that waits in the
\* backoff makes another connect attempt unless it is cancelled.
C5_RetriedIndefinitely ==
    /\ [](\A s \in Streams : task_exc[s] \notin ExceptionClasses)
    /\ \A s \in Streams :
          (Sleeping(s) /\ ~cancel_requested[s])
              ~> (pc[s] = "connecting" \/ cancel_requested[s])

\* a client connects again after it has failed as often as the history holds
C5_Witness ==
    \E s \in Streams :
        /\ pc[s] = "connecting"
        /\ Len(delays[s]) = MaxDelays
        /\ backoff_time[s] = BACKOFF_CAP
        /\ task_exc[s] = "none"

\* C6: once a cancellation is requested for a client that waits in the
\* backoff, the only step the client takes is to terminate with
\* CancelledError: the sleep does not complete and no connect follows.
C6_CancelAbortsBackoff ==
    [][\A s \in Streams :
          (Sleeping(s) /\ cancel_requested[s] /\ pc'[s] # pc[s])
              => /\ pc'[s] = "done"
                 /\ task_exc'[s] = "CancelledError"
                 /\ backoff_time'[s] = backoff_time[s]]_vars

\* a client cancelled in its third wait: the backoff was not doubled to 8
C6_Witness ==
    \E s \in Streams :
        /\ pc[s] = "done"
        /\ task_exc[s] = "CancelledError"
        /\ delays[s] = <<1, 2, 4>>
        /\ backoff_time[s] = 4

\* ------------------------------------------------------------------------
\* Properties of the ingestion tasks
\* ------------------------------------------------------------------------
\* C7: while main is in its loop no ingestion task has ended: no exception
\* has left a task.
C7_NoExceptionLeavesTask ==
    \A s \in Streams : main_pc = "loop" => task_exc[s] = "none"

RequiredQuoteFields == {"b", "B", "a", "A"}

\* C8: a top-of-book update that lacks a required field changes none of the
\* stores.
C8_RejectedQuoteKeepsState ==
    [][\A f \in BookTickerFrames :
          (/\ f.json
           /\ ~(RequiredQuoteFields \subseteq DOMAIN f.data)
           /\ RecvFrame("bookTicker", f, clock, clock, clock))
              => /\ UNCHANGED store_vars
                 /\ task_exc'["bookTicker"] = "KeyError"]_vars

\* an update was rejected when the series held quotes and trade metrics
C8_Witness ==
    /\ task_exc["bookTicker"] = "KeyError"
    /\ Len(timestamps) = MAX_DATAPOINTS
    /\ "trade" \in writers["vwaps"]

\* C9: no store has been changed by both tasks.
C9_SingleWriter ==
    \A n \in StoreNames : Cardinality(writers[n]) <= 1

\* C10: the seven per-quote series have the same length in every state in
\* which a task or the reader can run.
C10_SeriesSameLength ==
    \A n \in SeriesNames : Len(StoreOf(n)) = Len(timestamps)

\* the series are full, both tasks have written vwaps and the reader has run
C10_Witness ==
    /\ Len(timestamps) = MAX_DATAPOINTS
    /\ writers["vwaps"] = Streams
    /\ lines["line_vwap"][1] = MAX_DATAPOINTS

\* ------------------------------------------------------------------------
\* Properties of the order of events and of the trade history
\* ------------------------------------------------------------------------
\* the events of a history, without their frame numbers
Events(hs) == [i \in 1..Len(hs) |-> hs[i][2]]

\* the consumer appended the event of this entry to its store
AcceptedTrade(h) == FloatField(h[2], "p").exc = "none"
AcceptedQuote(h) == BookTickerRaises(h[2]) = "none"

ArrivalSec(msg) == Frac(msg["_ts_received_ws"], NS_PER_SEC)

\* C11: within one stream the consumer's loop body has run with exactly the
\* decoded frames, once each and in the order of their receipt, over all the
\* connections of the stream, and the stores hold the accepted events in
\* that order.
C11_ArrivalOrder ==
    /\ \A s \in Streams :
          /\ handled[s] = decoded[s]
          /\ \A i \in 1..Len(handled[s]) : handled[s][i][1] \in 1..frame_no[s]
          /\ \A i, j \in 1..Len(handled[s]) :
                 i < j => handled[s][i][1] < handled[s][j][1]
    /\ all_trades = LastN(Events(SelectSeq(handled["trade"], AcceptedTrade)),
                          ALL_TRADES_MAXLEN)
    /\ timestamps =
           LET quotes == Events(SelectSeq(handled["bookTicker"], AcceptedQuote))
           IN  LastN([i \in 1..Len(quotes) |-> ArrivalSec(quotes[i])], MAX_DATAPOINTS)

\* two different trades were applied on two connections: frame 2 did not
\* decode, the client waited and connected again
C11_Witness ==
    /\ Len(handled["trade"]) = 2
    /\ handled["trade"][1][1] = 1
    /\ handled["trade"][2][1] = 3
    /\ Len(all_trades) = 2
    /\ all_trades[1] # all_trades[2]
    /\ backoff_time["trade"] = INITIAL_BACKOFF

\* C12: the trade history never holds more than its capacity and its
\* arrival timestamps never decrease from one entry to the next; a step that
\* changes it appends the event just handled at the right end and, when the
\* history was full, drops the leftmost entry and no other.
C12_BoundedOrderedHistory ==
    /\ [](/\ Len(all_trades) <= ALL_TRADES_MAXLEN
          /\ \A i, j \in 1..Len(all_trades) :
                 i < j => all_trades[i]["_ts_received_ws"]
                              <= all_trades[j]["_ts_received_ws"])
    /\ [][all_trades' # all_trades =>
             /\ handled'["trade"] # handled["trade"]
             /\ all_trades' =
                    (IF Len(all_trades) = ALL_TRADES_MAXLEN
                     THEN Tail(all_trades) ELSE all_trades)
                        \o <<Last(handled'["trade"])[2]>>]_vars

\* the history is full, a trade was evicted and the clock advanced between
\* the trades it holds
C12_Witness ==
    /\ Len(all_trades) = ALL_TRADES_MAXLEN
    /\ Len(SelectSeq(handled["trade"], AcceptedTrade)) > ALL_TRADES_MAXLEN
    /\ all_trades[1]["_ts_received_ws"] < Last(all_trades)["_ts_received_ws"]

\* ------------------------------------------------------------------------
\* Properties of the metric functions
\* ------------------------------------------------------------------------
\* the call of fn under study has returned or raised
Done(fn) == call.fn = fn /\ result # Pending

\* the sum of the quantities, and of price times quantity, of a trade list
RECURSIVE QtySum(_)
QtySum(ts) ==
    IF ts = <<>> THEN FZero ELSE FAdd(Float(Head(ts).q), QtySum(Tail(ts)))

RECURSIVE ValueSum(_)
ValueSum(ts) ==
    IF ts = <<>> THEN FZero
    ELSE FAdd(FMul(Float(Head(ts).p), Float(Head(ts).q)), ValueSum(Tail(ts)))

SortedByT(ts) == \A i, j \in 1..Len(ts) : i < j => ts[i].T <= ts[j].T

\* C13: for a trade list in non-decreasing exchange-time order and a
\* positive window, calculate_trade_volume_per_second returns the sum of the
\* quantities of exactly the trades with T * 1e6 >= now - window, the cutoff
\* included; it returns 0 for an empty list and never raises; the example
\* trades give 3.5 for 1 s and 4.0 for 2 s.
C13_TrailingVolume ==
    Done("calculate_trade_volume_per_second") =>
        LET ts == call.trades
            cutoff == call.current_time_ns - call.window_seconds * NS_PER_SEC
            InWindow(t) == t.T * NS_PER_MS >= cutoff
        IN  /\ result.exc = "none"
            /\ ts = <<>> => result.val = FZero
            /\ (call.window_seconds > 0 /\ SortedByT(ts))
                   => result.val = QtySum(SelectSeq(ts, InWindow))
            /\ (ts = ExampleTrades /\ call.current_time_ns = ExampleNow)
                   => result.val = IF call.window_seconds = 1 THEN <<7, 2>> ELSE <<4, 1>>

\* of three trades at 0, 500 and 1000 ms, a 1 s window at 1.5 s holds the
\* trade exactly at the cutoff and the one after it: 2 + 0.5
C13_Witness ==
    /\ Done("calculate_trade_volume_per_second")
    /\ call.trades = << [p |-> "1", q |-> "1", T |-> 0],
                        [p |-> "2", q |-> "2", T |-> 500],
                        [p |-> "1.5", q |-> "0.5", T |-> 1000] >>
    /\ call.current_time_ns = 3 * ClockStep
    /\ call.window_seconds = 1
    /\ result = Ok(<<5, 2>>)

\* C14: calculate_vwap returns no value, and does not raise, when the list
\* is empty, the window size is not positive or the quantities of the window
\* sum to 0; otherwise it returns sum(p * q) / sum(q) over the
\* min(window size, length) most recent trades.
C14_Vwap ==
    Done("calculate_vwap") =>
        LET ts == call.trades
            n == call.window_size_trades
            k == Min(n, Len(ts))
            recent == SubSeq(ts, Len(ts) - k + 1, Len(ts))
        IN  /\ result.exc = "none"
            /\ IF ts = <<>> \/ n <= 0 \/ QtySum(recent) = FZero
               THEN result.val = None
               ELSE /\ result.val # None
                    /\ FMul(result.val, QtySum(recent)) = ValueSum(recent)

\* the two most recent of three trades: (2 * 2 + 1.5 * 0.5) / 2.5 = 1.9
C14_Witness ==
    /\ Done("calculate_vwap")
    /\ call.trades = << [p |-> "1", q |-> "1", T |-> 0],
                        [p |-> "2", q |-> "2", T |-> 500],
                        [p |-> "1.5", q |-> "0.5", T |-> 1000] >>
    /\ call.window_size_trades = 2
    /\ result = Ok(<<19, 10>>)

\* best_bid > 0, best_ask > 0 and best_ask > best_bid
TwoSided(best_bid, best_ask) ==
    /\ FLt(FZero, best_bid)
    /\ FLt(FZero, best_ask)
    /\ FLt(best_bid, best_ask)

\* C15: calculate_spread and calculate_mid_price return a value exactly when
\* best_bid > 0, best_ask > 0 and best_ask > best_bid, the spread being
\* best_ask - best_bid and the mid (best_ask + best_bid) / 2; in every other
\* case both return None, never 0.
C15_SpreadMidDefinedness ==
    /\ Done("calculate_spread") =>
          IF TwoSided(call.best_bid, call.best_ask)
          THEN /\ result.val # None
               /\ FAdd(result.val, call.best_bid) = call.best_ask
          ELSE result = Ok(None)
    /\ Done("calculate_mid_price") =>
          IF TwoSided(call.best_bid, call.best_ask)
          THEN /\ result.val # None
               /\ FAdd(result.val, result.val) = FAdd(call.best_ask, call.best_bid)
          ELSE result = Ok(None)

\* the mid-price of a crossed book (bid 2, ask 1) is None
C15_Witness ==
    /\ Done("calculate_mid_price")
    /\ call.best_bid = <<2, 1>>
    /\ call.best_ask = <<1, 1>>
    /\ result = Ok(None)

LivePrices(levels) == {l.price : l \in {x \in levels : FLt(FZero, x.quantity)}}

\* C17: in every state get_best_bid is the highest bid price stored with a
\* quantity > 0 and get_best_ask the lowest such ask price, and each is 0
\* when its side has no such price.
C17_BestConsistent ==
    /\ get_best_bid = IF LivePrices(bids) = {} THEN FZero
                      ELSE MaxPrice(LivePrices(bids))
    /\ get_best_ask = IF LivePrices(asks) = {} THEN FZero
                      ELSE MinPrice(LivePrices(asks))

\* the best bid was removed and the best bid is now the level below it
C17_Witness ==
    /\ last_op = [op |-> "remove_best", side |-> "bid"]
    /\ Keys(bids) = {<<1, 2>>}
    /\ get_best_bid = <<1, 2>>

\* C18: update_from_book_ticker leaves on the bid side exactly the level
\* (b, B) when B > 0 and no level otherwise, and on the ask side exactly
\* (a, A) when A > 0 and no level otherwise, whatever the book held before.
C18_TopOfBookReplaces ==
    [][\A data \in TickerUpdates :
          update_from_book_ticker(data) =>
              /\ bids' = IF FLt(FZero, Float(data.B))
                         THEN {PriceLevel(Float(data.b), Float(data.B))} ELSE {}
              /\ asks' = IF FLt(FZero, Float(data.A))
                         THEN {PriceLevel(Float(data.a), Float(data.A))} ELSE {}]_vars

\* an update replaced a book of several levels per side by one level each
C18_Witness ==
    /\ last_op.op = "replace_many"
    /\ Cardinality(bids) = 1
    /\ Cardinality(asks) = 1

\* C19: an upsert with quantity <= 0 takes the price out of the key set of
\* its side, after which the quantity at the price is 0; it changes nothing
\* when the price is absent; the other levels of the side and the other
\* side stay as they are.
C19_NonPositiveRemoves ==
    [][\A price \in BookPrices, quantity \in BookQuantities :
          FLe(quantity, FZero) =>
              /\ update_bid(price, quantity) =>
                    /\ bids' = {l \in bids : l.price # price}
                    /\ price \notin Keys(bids')
                    /\ QuantityAt(bids', price) = FZero
                    /\ price \notin Keys(bids) => bids' = bids
                    /\ asks' = asks
              /\ update_ask(price, quantity) =>
                    /\ asks' = {l \in asks : l.price # price}
                    /\ price \notin Keys(asks')
                    /\ QuantityAt(asks', price) = FZero
                    /\ price \notin Keys(asks) => asks' = asks
                    /\ bids' = bids]_vars

\* an ask that was not the best was removed; the best ask and the bids remain
C19_Witness ==
    /\ last_op = [op |-> "remove", side |-> "ask"]
    /\ Keys(asks) = {<<1, 2>>}
    /\ Cardinality(bids) = MaxLevels

\* C20: in every state each side holds at most one level per price and
\* every stored level has a quantity > 0.
C20_LevelsUniquePositive ==
    \A levels \in {bids, asks} :
        /\ \A l1, l2 \in levels : l1.price = l2.price => l1 = l2
        /\ \A l \in levels : FLt(FZero, l.quantity)

\* a level of a full ask side was overwritten while the bid side is empty
C20_Witness ==
    /\ last_op = [op |-> "overwrite", side |-> "ask"]
    /\ Cardinality(asks) = MaxLevels
    /\ bids = {}

\* C21: update_from_book_ticker applied a second time with the same update
\* leaves the book as the first application left it.
C21_TopOfBookIdempotent ==
    [][\A data \in TickerUpdates :
          (AppliedLast(data) /\ update_from_book_ticker(data))
              => (bids' = bids /\ asks' = asks)]_vars

\* the same update was applied twice in a row and both sides hold its level
C21_Witness ==
    /\ last_op.op = "replace_again"
    /\ bids = {PriceLevel(<<1, 1>>, <<1, 1>>)}
    /\ asks = {PriceLevel(<<3, 2>>, <<2, 1>>)}

\* C22: once main has requested the shutdown, whatever state each ingestion
\* task is in, the finally block gets past both wait_for calls and reaches
\* plt.close.
C22_ShutdownCompletes == (main_pc # "loop") ~> (main_pc = "closed")

\* C23: the readers leave what they read as it is: a step of update_plot
\* changes no store, and after data_collector_trades has computed vwap and
\* volume from the trade history the history is the appended one and the
\* quote series are unchanged.
C23_ReadersDoNotMutate ==
    [][/\ update_plot => UNCHANGED store_vars
       /\ \A f \in ReaderFrames("trade") :
             RecvFrame("trade", f, clock, clock, clock)
                 => /\ all_trades' = DequeAppend(all_trades,
                                         Stamp(f.data, clock, clock, clock),
                                         ALL_TRADES_MAXLEN)
                    /\ UNCHANGED quote_series]_vars

\* update_plot has drawn full series and the metrics were computed from a
\* full trade history
C23_Witness ==
    /\ lines["line_vwap"] = <<MAX_DATAPOINTS, MAX_DATAPOINTS>>
    /\ Len(all_trades) = ALL_TRADES_MAXLEN
    /\ "trade" \in writers["vwaps"]

\* C24: an invalid subscription target does not enter the backoff-and-retry
\* cycle: when websockets.connect rejects the uri, the client does not wait
\* for a next attempt.
C24_ConfigErrorNotRetried ==
    [][\A s \in Streams : ConnectFail(s, "InvalidURI") => ~Sleeping(s)']_vars

\* C25: for every trade history the trade task builds, the backward scan of
\* calculate_trade_volume_per_second, called as the collector calls it with
\* the arrival time of the newest trade, returns the sum of the quantities
\* of all the trades of the history with T * 1e6 >= now - window.
C25_EarlyExitExact ==
    (/\ Len(all_trades) > 0
     /\ \A i \in 1..Len(all_trades) : {"q", "T"} \subseteq DOMAIN all_trades[i])
        => LET now == Last(all_trades)["_ts_received_ws"]
               cutoff == now - WINDOW_SECONDS * NS_PER_SEC
               InWindow(t) == t.T * NS_PER_MS >= cutoff
           IN  calculate_trade_volume_per_second(all_trades, now, WINDOW_SECONDS)
                   = Ok(QtySum(SelectSeq(all_trades, InWindow)))

\* C26: what follows a failure does not depend on its class: every Exception
\* of the connect or of the open connection starts a wait of the current
\* backoff_time and leaves backoff_time as it is, and the end of the wait,
\* in either except clause, doubles backoff_time up to the cap and starts
\* the next connect.
C26_SameControlFlow ==
    [][\A s \in Streams :
          /\ \A e \in ExceptionClasses :
                (ConnectFail(s, e) \/ ConnectionLost(s, e))
                    => /\ Sleeping(s)'
                       /\ delays'[s] = Record(delays[s], backoff_time[s])
                       /\ backoff_time'[s] = backoff_time[s]
          /\ SleepDone(s)
                => /\ pc'[s] = "connecting"
                   /\ backoff_time'[s] = Min(backoff_time[s] * 2, BACKOFF_CAP)
                   /\ delays'[s] = delays[s]]_vars

\* a client waits in the second except clause for the third time in a row
C26_Witness ==
    \E s \in Streams : pc[s] = "sleep_any" /\ delays[s] = <<1, 2, 4>>

\* C27: every event the client has yielded carries the three timestamps and
\* its arrival timestamp is not later than the one taken before decoding,
\* which is not later than the one taken after decoding.
C27_ArrivalBeforeDecode ==
    \A s \in Streams : \A i \in 1..Len(decoded[s]) :
        LET data == decoded[s][i][2]
        IN  /\ {"_ts_received_ws", "_ts_before_parse", "_ts_after_parse"}
                   \subseteq DOMAIN data
            /\ data["_ts_received_ws"] <= data["_ts_before_parse"]
            /\ data["_ts_before_parse"] <= data["_ts_after_parse"]

\* new is old with at most its last element replaced
SameButLast(new, old) ==
    /\ Len(new) = Len(old)
    /\ \A i \in 1..(Len(old) - 1) : new[i] = old[i]

\* C28: a trade event changes the length of no series: the quote series
\* stay as they are, vwaps, trade_volumes_per_sec and last_trade_prices
\* change at most in their last element, an event with a price is appended
\* to the trade history, and while the series are empty nothing but the
\* trade history changes.
C28_TradeKeepsLengths ==
    [][\A f \in TradeFrames :
          (f.json /\ RecvFrame("trade", f, clock, clock, clock))
              => /\ UNCHANGED quote_series
                 /\ SameButLast(vwaps', vwaps)
                 /\ SameButLast(trade_volumes_per_sec', trade_volumes_per_sec)
                 /\ SameButLast(last_trade_prices', last_trade_prices)
                 /\ "p" \in DOMAIN f.data
                        => all_trades' = DequeAppend(all_trades,
                                             Stamp(f.data, clock, clock, clock),
                                             ALL_TRADES_MAXLEN)
                 /\ Len(timestamps) = 0 => UNCHANGED series_vars]_vars

\* a trade has replaced the last price of full series and left the first
C28_Witness ==
    /\ Len(timestamps) = MAX_DATAPOINTS
    /\ "trade" \in writers["last_trade_prices"]
    /\ last_trade_prices[1] # last_trade_prices[MAX_DATAPOINTS]
    /\ Len(all_trades) = ALL_TRADES_MAXLEN

\* C29: for the trade list and the current time of a call of
\* calculate_trade_volume_per_second, ordered by T or not, the value
\* returned is 0 for a window <= 0 and is not greater than the value for
\* any longer window.
C29_VolumeMonotone ==
    Done("calculate_trade_volume_per_second") =>
        /\ result.exc = "none"
        /\ call.window_seconds <= 0 => result.val = FZero
        /\ \A w \in WindowSeconds :
              w >= call.window_seconds =>
                  LET longer == calculate_trade_volume_per_second(
                                    call.trades, call.current_time_ns, w)
                  IN  longer.exc = "none" /\ FLe(result.val, longer.val)

\* a list that is not ordered by T, at 1.5 s: the 1 s window stops at the
\* newest trade, which is older than its cutoff, and returns 0; the 2 s
\* window returns 0.5 + 1
C29_Witness ==
    /\ Done("calculate_trade_volume_per_second")
    /\ call.trades = << [p |-> "1.5", q |-> "0.5", T |-> 1000],
                        [p |-> "1", q |-> "1", T |-> 0] >>
    /\ call.current_time_ns = 3 * ClockStep
    /\ call.window_seconds = 1
    /\ result = Ok(FZero)
    /\ calculate_trade_volume_per_second(call.trades, call.current_time_ns, 2)
           = Ok(<<3, 2>>)

\* the result of the call is a value, not None
Defined == result.exc = "none" /\ result.val # None

====
